---- MODULE Spec2Model ----
(***************************************************************************)
(* Prompt Harvester: relationship mapper (classification, graph building,  *)
(* batch processing), the search endpoints, the embedding service, the     *)
(* capture script and the capture endpoint, the backup script and the      *)
(* template extractor's clustering.                                        *)
(*                                                                         *)
(* Similarity scores are modelled in hundredths (0.95 is 95).  Texts are   *)
(* sequences of one-character strings, so that toLowerCase(), includes()   *)
(* and the regular expressions are computed on characters.                 *)
(***************************************************************************)
EXTENDS Integers, Sequences, FiniteSets, Bags, TLC

VARIABLES
    source,            \* classifyRelationship: the source conversation
    target,            \* classifyRelationship: the target conversation
    similarity,        \* classifyRelationship: the similarity score
    relationshipType,  \* classifyRelationship: "pending", a type, or TypeError
    points,            \* Qdrant collection 'prompts': ids that have a vector
    sim,               \* Qdrant: similarity score of each pair of vectors
    rels,              \* table conversation_relationships, a bag of rows
    now,               \* the database clock, NOW()
    frames,            \* findRelatedConversations: one invocation per caller
    batch,             \* batchProcessRelationships: the running batch
    cancelRequested,   \* the batch's caller has asked for cancellation
    processed,         \* the conversations a batch has counted as success
    embeddingStatus,   \* conversations.embedding_status of each conversation
    errorLog,          \* table embeddings_error_log, a bag of rows
    embed,             \* EmbeddingService.processConversation: the running call
    embedBatch,        \* EmbeddingService.batchProcessExisting: the running batch
    messageQueue,      \* AIConversationCapture.messageQueue
    syncs,             \* syncMessages: the calls that are awaiting
    delivered,         \* the batches the backend has received, in order
    failedMessages,    \* chrome.storage.local: failedMessages
    captured,          \* the number of messages queueMessage has accepted
    backupDir,         \* the files of config.backupPath
    backupRun,         \* backup-automated.ts: the running script
    today,             \* the date of the system clock, a day number
    retention,         \* config.retention
    createdBackups,    \* every backup file a run has created so far
    database,          \* POST /api/capture: tables conversations and messages
    capture,           \* POST /api/capture: the running processMessages
    clusterRun,        \* TemplateExtractor.clusterSimilarPrompts: the running call
    route,             \* search: the path of the request
    query,             \* search: the request's query
    vectorResults,     \* search: what the embedding and qdrant.search yield
    vectorData,        \* hybrid search: the semantic endpoint's response
    textResult,        \* search: the outcome of the full-text query
    limit,             \* search: the request's limit
    invoked,           \* search: the backends the handler has queried
    response           \* search: the handler's response, status 0 before it

cvars == <<source, target, similarity, relationshipType>>
gvars == <<points, sim, rels, now, frames, batch>>
fvars == <<route, query, vectorResults, vectorData, textResult, limit,
           invoked, response>>
evars == <<cancelRequested>>
hvars == <<processed>>
pvars == <<database, capture>>
kvars == <<clusterRun>>
svars == <<embeddingStatus, errorLog, embed, embedBatch>>
qvars == <<messageQueue, syncs, delivered, failedMessages, captured>>
bvars == <<backupDir, backupRun, today, retention, createdBackups>>
xvars == <<evars, hvars, pvars, kvars, svars, qvars, bvars>>
others == <<cvars, fvars, xvars>>
vars == <<cvars, gvars, fvars, xvars>>

-----------------------------------------------------------------------------
(* JavaScript values *)

Null == [kind |-> "null"]
Undefined == [kind |-> "undefined"]
Str(s) == [kind |-> "string", s |-> s]
IsNullish(v) == v.kind \in {"null", "undefined"}
TypeError == "TypeError"

\* String.prototype.toLowerCase on the letters the texts use
LowerChar(c) ==
    CASE c = "A" -> "a" [] c = "B" -> "b" [] c = "C" -> "c" [] c = "D" -> "d"
      [] c = "E" -> "e" [] c = "F" -> "f" [] c = "G" -> "g" [] c = "H" -> "h"
      [] c = "I" -> "i" [] c = "J" -> "j" [] c = "K" -> "k" [] c = "L" -> "l"
      [] c = "M" -> "m" [] c = "N" -> "n" [] c = "O" -> "o" [] c = "P" -> "p"
      [] c = "Q" -> "q" [] c = "R" -> "r" [] c = "S" -> "s" [] c = "T" -> "t"
      [] c = "U" -> "u" [] c = "V" -> "v" [] c = "W" -> "w" [] c = "X" -> "x"
      [] c = "Y" -> "y" [] c = "Z" -> "z" [] OTHER -> c

toLowerCase(s) == [i \in 1..Len(s) |-> LowerChar(s[i])]

\* String.prototype.includes: kw occurs in s as a contiguous substring
includes(s, kw) ==
    \E i \in 0..(Len(s) - Len(kw)) : SubSeq(s, i + 1, i + Len(kw)) = kw

\* String(v), the conversion RegExp.prototype.test applies to its argument
StringOf(v) ==
    CASE v.kind = "null" -> <<"n", "u", "l", "l">>
      [] v.kind = "undefined" -> <<"u", "n", "d", "e", "f", "i", "n", "e", "d">>
      [] OTHER -> v.s

\* /a|b|.../i .test(v): some alternative occurs, whatever the case of v
test(alternatives, v) ==
    \E a \in alternatives : includes(toLowerCase(StringOf(v)), a)

\* truthiness of conversation.project: null and '' are falsy
Truthy(p) == p.kind = "string" /\ p.s # ""

-----------------------------------------------------------------------------
(* RelationshipMapper.classifyRelationship and its helpers *)

NearDuplicateThreshold == 95
ReferencesThreshold == 85

problemKeywords == {
    <<"e", "r", "r", "o", "r">>,
    <<"i", "s", "s", "u", "e">>,
    <<"p", "r", "o", "b", "l", "e", "m">>,
    <<"b", "u", "g">>,
    <<"f", "a", "i", "l", "e", "d">>,
    <<"b", "r", "o", "k", "e", "n">>,
    <<"n", "o", "t", " ", "w", "o", "r", "k", "i", "n", "g">>,
    <<"d", "o", "e", "s", "n", "'", "t", " ", "w", "o", "r", "k">>,
    <<"h", "e", "l", "p">>,
    <<"f", "i", "x">>,
    <<"s", "o", "l", "v", "e">> }

contradictPatterns == <<
    [pattern |-> { <<"s", "h", "o", "u", "l", "d", " ", "u", "s", "e">> },
     opposite |-> { <<"s", "h", "o", "u", "l", "d", " ", "n", "o", "t", " ", "u", "s", "e">>,
                    <<"s", "h", "o", "u", "l", "d", "n", "'", "t", " ", "u", "s", "e">>,
                    <<"a", "v", "o", "i", "d">> }],
    [pattern |-> { <<"r", "e", "c", "o", "m", "m", "e", "n", "d", "e", "d">> },
     opposite |-> { <<"n", "o", "t", " ", "r", "e", "c", "o", "m", "m", "e", "n", "d", "e", "d">>,
                    <<"d", "e", "p", "r", "e", "c", "a", "t", "e", "d">>,
                    <<"o", "b", "s", "o", "l", "e", "t", "e">> }],
    [pattern |-> { <<"w", "o", "r", "k", "s", " ", "w", "i", "t", "h">> },
     opposite |-> { <<"d", "o", "e", "s", "n", "'", "t", " ", "w", "o", "r", "k">>,
                    <<"i", "n", "c", "o", "m", "p", "a", "t", "i", "b", "l", "e">> }] >>

\* conv.user_prompt.toLowerCase() throws a TypeError on null and undefined
isProblemSolvingThrows(conv) == IsNullish(conv.user_prompt)

isProblemSolvingConversation(conv) ==
    /\ ~isProblemSolvingThrows(conv)
    /\ \E kw \in problemKeywords : includes(toLowerCase(conv.user_prompt.s), kw)

mightContradict(src, tgt) ==
    \E i \in 1..Len(contradictPatterns) :
        LET p == contradictPatterns[i] IN
        \/ test(p.pattern, src.user_prompt) /\ test(p.opposite, tgt.user_prompt)
        \/ test(p.opposite, src.user_prompt) /\ test(p.pattern, tgt.user_prompt)

\* rule 2 of classifyRelationship: both branches of the inner if return
\* builds_on; equal start times fall through to the later rules
SameProjectBuildsOn(src, tgt) ==
    /\ Truthy(src.project) /\ Truthy(tgt.project) /\ src.project = tgt.project
    /\ (src.started_at > tgt.started_at \/ src.started_at < tgt.started_at)

\* the && of rule 3 evaluates its right operand only when the left one is true
ProblemCheckThrows(src, tgt) ==
    \/ isProblemSolvingThrows(src)
    \/ isProblemSolvingConversation(src) /\ isProblemSolvingThrows(tgt)

\* the rules with the same-project rule tried before the near-duplicate rule
classifyProjectFirst(src, tgt, score) ==
    IF SameProjectBuildsOn(src, tgt) THEN "builds_on"
    ELSE IF score > NearDuplicateThreshold THEN "near_duplicate"
    ELSE IF ProblemCheckThrows(src, tgt) THEN TypeError
    ELSE IF /\ isProblemSolvingConversation(src)
            /\ isProblemSolvingConversation(tgt)
            /\ src.topics \cap tgt.topics # {}
         THEN "solves_same_problem"
    ELSE IF mightContradict(src, tgt) THEN "contradicts"
    ELSE IF score > ReferencesThreshold THEN "references"
    ELSE "related"

classifyRelationship(src, tgt, score) ==
    IF score > NearDuplicateThreshold THEN "near_duplicate"
    ELSE IF SameProjectBuildsOn(src, tgt) THEN "builds_on"
    ELSE IF ProblemCheckThrows(src, tgt) THEN TypeError
    ELSE IF /\ isProblemSolvingConversation(src)
            /\ isProblemSolvingConversation(tgt)
            /\ src.topics \cap tgt.topics # {}
         THEN "solves_same_problem"
    ELSE IF mightContradict(src, tgt) THEN "contradicts"
    ELSE IF score > ReferencesThreshold THEN "references"
    ELSE "related"

RelationshipTypes ==
    {"near_duplicate", "builds_on", "solves_same_problem", "references",
     "contradicts", "related"}

-----------------------------------------------------------------------------
(* Inputs of the classifier *)

MaxStart == 2

\* "Fix it" and "AVOID" need toLowerCase and the i flag; "doesn't work" and
\* "help works with" hold a problem keyword and a contradiction pattern each
Strings == {
    Str(<<"o", "k">>),
    Str(<<"F", "i", "x", " ", "i", "t">>),
    Str(<<"s", "h", "o", "u", "l", "d", " ", "u", "s", "e">>),
    Str(<<"A", "V", "O", "I", "D">>),
    Str(<<"d", "o", "e", "s", "n", "'", "t", " ", "w", "o", "r", "k">>),
    Str(<<"h", "e", "l", "p", " ", "w", "o", "r", "k", "s", " ", "w", "i", "t", "h">>) }

Projects == {Null, Str("p1"), Str("p2")}
TopicSets == {{}, {"t1"}, {"t2"}}
Scores == {50, 85, 90, 95, 97}

\* getConversation (lines 207-228): user_prompt is the first user message, or
\* NULL when the conversation has none
SourceConversations ==
    [project : Projects, started_at : 1..MaxStart, topics : TopicSets,
     user_prompt : Strings \cup {Null}]

\* rows of the query at lines 78-83 have no user_prompt; a caller of the
\* classifier may pass one
TargetConversations ==
    [project : Projects, started_at : 1..MaxStart, topics : TopicSets,
     user_prompt : Strings \cup {Undefined}]

-----------------------------------------------------------------------------
(* The stores the relationship mapper reads: PostgreSQL and Qdrant *)

Ids == {"c1", "c2", "c3"}        \* rows of table conversations
PointIds == Ids \cup {"x1"}      \* ids a Qdrant point may carry; x1 has no row

\* table conversations, with the first user message of each conversation
conversations == [id \in Ids |->
    CASE id = "c1" ->
           [project |-> Str("p1"), started_at |-> 1, topics |-> {"t1"},
            user_prompt |-> Str(<<"o", "k">>), embedding_status |-> "completed"]
      [] id = "c2" ->
           [project |-> Str("p1"), started_at |-> 2, topics |-> {"t1"},
            user_prompt |-> Str(<<"F", "i", "x", " ", "i", "t">>),
            embedding_status |-> "completed"]
      [] OTHER ->
           [project |-> Null, started_at |-> 3, topics |-> {"t1", "t2"},
            user_prompt |-> Null, embedding_status |-> "pending"]]

DefaultThreshold == 80
DefaultLimit == 20
DefaultBatchLimit == 100

Pairs == {{a, b} : a, b \in PointIds} \ {{a} : a \in PointIds}

\* the similarity scores Qdrant may compute for the stored vectors
SimTables ==
    {[p \in Pairs |->
        CASE p = {"c1", "c2"} -> s12
          [] p = {"c2", "c3"} -> 90
          [] p = {"c1", "c3"} -> 82
          [] OTHER -> 88] : s12 \in {90, 97}}

PointSets == {PointIds, {"c1", "c2", "x1"}, {"c2", "c3"}, {"c1"}}

MaxNow == 1

Callers == {"direct", "batch"}
Thresholds == {DefaultThreshold}
Limits == {1, DefaultLimit}
BatchLimits == {1, DefaultBatchLimit}

IdleFrame ==
    [pc |-> "idle", id |-> "none", threshold |-> 0, limit |-> 0,
     similarResults |-> <<>>, relationships |-> <<>>, k |-> 0,
     error |-> "none", rerun |-> FALSE, wrote |-> FALSE]

IdleBatch ==
    [pc |-> "idle", ids |-> <<>>, i |-> 0, minSimilarity |-> 0,
     results |-> [success |-> 0, failed |-> 0, relationships |-> 0]]

-----------------------------------------------------------------------------
(* RelationshipMapper.findRelatedConversations *)

Injective(f) == \A i, j \in DOMAIN f : i # j => f[i] # f[j]

Min(a, b) == IF a < b THEN a ELSE b

\* the search without its must_not filter: the point of the conversation
\* itself, at score 1, is the first hit
SearchWithSelf(id, threshold, lim) ==
    LET hits == {[id |-> p, score |-> IF p = id THEN 100 ELSE sim[{id, p}]] :
                    p \in {q \in points :
                              q = id \/ sim[{id, q}] >= threshold}}
        n == Min(lim, Cardinality(hits))
    IN  {r \in [1..n -> hits] :
            /\ Injective(r)
            /\ \A i, j \in 1..n : i < j => r[i].score >= r[j].score
            /\ \A h \in hits : (\A i \in 1..n : r[i] # h) =>
                                 \A i \in 1..n : r[i].score >= h.score}

\* qdrant.search: the `lim` nearest points with score >= threshold, the point
\* of the conversation itself filtered out, best score first
SearchResults(id, threshold, lim) ==
    LET hits == {[id |-> p, score |-> sim[{id, p}]] :
                    p \in {q \in points \ {id} : sim[{id, q}] >= threshold}}
        n == Min(lim, Cardinality(hits))
    IN  {r \in [1..n -> hits] :
            /\ Injective(r)
            /\ \A i, j \in 1..n : i < j => r[i].score >= r[j].score
            /\ \A h \in hits : (\A i \in 1..n : r[i] # h) =>
                                 \A i \in 1..n : r[i].score >= h.score}

\* a row of the query at lines 78-83: user_prompt is not selected
TargetRow(id) == [conversations[id] EXCEPT !.user_prompt = Undefined]

\* the classification loop: matches without a conversation row are skipped,
\* a TypeError of classifyRelationship ends the loop
RECURSIVE ClassifyMatches(_, _, _)
ClassifyMatches(sourceConv, matches, acc) ==
    IF matches = <<>> THEN [threw |-> FALSE, relationships |-> acc]
    ELSE LET match == Head(matches) IN
         IF match.id \notin Ids
         THEN ClassifyMatches(sourceConv, Tail(matches), acc)
         ELSE LET targetConv == TargetRow(match.id)
                  type == classifyRelationship(sourceConv, targetConv, match.score)
              IN  IF type = TypeError
                  THEN [threw |-> TRUE, relationships |-> acc]
                  ELSE ClassifyMatches(sourceConv, Tail(matches),
                         Append(acc, [id |-> match.id, score |-> match.score,
                                      type |-> type,
                                      project |-> targetConv.project,
                                      started_at |-> targetConv.started_at]))

RowsOf(table, id) == {r \in BagToSet(table) : r.source = id}

\* INSERT ... ON CONFLICT (source_conversation_id, related_conversation_id)
\* DO UPDATE: a row with the same key is overwritten in place
\* a plain INSERT into a table without the primary key
UpsertAppend(table, row) == table (+) SetToBag({row})

\* ON CONFLICT DO NOTHING: the row in the table stays as it is
UpsertKeepsOld(table, row) ==
    IF \E r \in BagToSet(table) : r.source = row.source /\ r.related = row.related
    THEN table
    ELSE table (+) SetToBag({row})

Upsert(table, row) ==
    LET conflict == {r \in BagToSet(table) :
                        r.source = row.source /\ r.related = row.related}
        kept == [r \in BagToSet(table) \ conflict |-> table[r]]
    IN  kept (+) SetToBag({row})

RelRow(sourceId, rel, at) ==
    [source |-> sourceId, related |-> rel.id, score |-> rel.score,
     type |-> rel.type, detected_at |-> at]

Strip(r) == [related |-> r.related, score |-> r.score, type |-> r.type]

RECURSIVE CountRows(_, _)
CountRows(table, S) ==
    IF S = {} THEN 0
    ELSE LET r == CHOOSE x \in S : TRUE IN table[r] + CountRows(table, S \ {r})

\* every relationship of the list is in the table already, with the same
\* score and type (recorded in the frame's field rerun, which the code does
\* not have: it marks a call that repeats an earlier one)
AllStored(table, id, relationships) ==
    \A i \in 1..Len(relationships) :
        \E r \in RowsOf(table, id) : Strip(r) = Strip(RelRow(id, relationships[i], 0))

\* the call is entered: nothing has been awaited yet
Enter(c, id, threshold, lim) ==
    frames' = [frames EXCEPT ![c] =
        [IdleFrame EXCEPT !.pc = "running", !.id = id, !.threshold = threshold,
                          !.limit = lim]]

\* the lookup that finds no point throws, instead of returning []
FindNoEmbeddingThrows(c) ==
    LET f == frames[c] IN
    /\ f.pc = "running"
    /\ f.id \notin points
    /\ frames' = [frames EXCEPT ![c].pc = "threw", ![c].error = "EmbeddingNotFound"]
    /\ UNCHANGED <<points, sim, rels, now, batch, others>>

\* lines 43-53: no point for the conversation: warn and return []
FindNoEmbedding(c) ==
    LET f == frames[c] IN
    /\ f.pc = "running"
    /\ f.id \notin points
    /\ frames' = [frames EXCEPT ![c].pc = "returned"]
    /\ UNCHANGED <<points, sim, rels, now, batch, others>>

\* a query to Qdrant or PostgreSQL fails: the catch at line 116 rethrows
FindQueryFails(c) ==
    LET f == frames[c] IN
    /\ f.pc = "running"
    /\ frames' = [frames EXCEPT ![c].pc = "threw", ![c].error = "query failed"]
    /\ UNCHANGED <<points, sim, rels, now, batch, others>>

\* lines 55-110: search, fetch the rows, classify every match
FindClassify(c) ==
    LET f == frames[c] IN
    /\ f.pc = "running"
    /\ f.id \in points
    /\ \E similarResults \in SearchResults(f.id, f.threshold, f.limit) :
         IF similarResults = <<>>
         THEN frames' = [frames EXCEPT ![c].pc = "returned"]
         ELSE IF f.id \notin Ids
         THEN \* getConversation: Conversation not found
              frames' = [frames EXCEPT ![c].pc = "threw",
                                       ![c].error = "Conversation not found",
                                       ![c].similarResults = similarResults]
         ELSE LET out == ClassifyMatches(conversations[f.id], similarResults, <<>>) IN
              IF out.threw
              THEN frames' = [frames EXCEPT ![c].pc = "threw",
                                            ![c].error = TypeError,
                                            ![c].similarResults = similarResults]
              ELSE IF out.relationships = <<>>
              THEN frames' = [frames EXCEPT ![c].pc = "returned",
                                            ![c].similarResults = similarResults]
              ELSE frames' = [frames EXCEPT ![c].pc = "store",
                                            ![c].similarResults = similarResults,
                                            ![c].relationships = out.relationships,
                                            ![c].k = 1,
                                            ![c].rerun = AllStored(rels, f.id, out.relationships)]
    /\ UNCHANGED <<points, sim, rels, now, batch, others>>

\* storeRelationships: one awaited upsert per relationship; after the last one
\* findRelatedConversations returns the relationships (the frame's field
\* wrote, which the code does not have, records that the call has changed
\* the table)
StoreRelationship(c) ==
    LET f == frames[c] IN
    /\ f.pc = "store"
    /\ rels' = Upsert(rels, RelRow(f.id, f.relationships[f.k], now))
    /\ frames' = [frames EXCEPT
          ![c].k = f.k + 1,
          ![c].wrote = f.wrote \/ rels' # rels,
          ![c].pc = IF f.k = Len(f.relationships) THEN "returned" ELSE "store"]
    /\ UNCHANGED <<points, sim, now, batch, others>>

\* an upsert fails: storeRelationships throws, the rows written so far stay
StoreFails(c) ==
    LET f == frames[c] IN
    /\ f.pc = "store"
    /\ frames' = [frames EXCEPT ![c].pc = "threw", ![c].error = "query failed"]
    /\ UNCHANGED <<points, sim, rels, now, batch, others>>

\* a caller other than the batch: the API or a script
Call(id, threshold, lim) ==
    /\ frames["direct"].pc = "idle"
    /\ Enter("direct", id, threshold, lim)
    /\ UNCHANGED <<points, sim, rels, now, batch, others>>

CallEnds ==
    /\ frames["direct"].pc \in {"returned", "threw"}
    /\ frames' = [frames EXCEPT !["direct"] = IdleFrame]
    /\ UNCHANGED <<points, sim, rels, now, batch, others>>

Tick ==
    /\ now < MaxNow
    /\ now' = now + 1
    /\ UNCHANGED <<points, sim, rels, frames, batch, others>>

-----------------------------------------------------------------------------
(* RelationshipMapper.batchProcessRelationships *)

\* lines 260-270: completed embedding, no outgoing relationship, newest first
SelectUnprocessed(table, lim) ==
    LET eligible == {id \in Ids :
                        /\ conversations[id].embedding_status = "completed"
                        /\ RowsOf(table, id) = {}}
        n == Cardinality(eligible)
        ordered == CHOOSE o \in [1..n -> eligible] :
                      /\ Injective(o)
                      /\ \A i, j \in 1..n : i < j =>
                           conversations[o[i]].started_at >= conversations[o[j]].started_at
    IN  SubSeq(ordered, 1, Min(lim, n))

BatchStart(lim, minSimilarity) ==
    /\ batch.pc = "idle"
    /\ batch' = [IdleBatch EXCEPT !.pc = "loop", !.i = 1,
                                  !.ids = SelectUnprocessed(rels, lim),
                                  !.minSimilarity = minSimilarity]
    /\ UNCHANGED <<points, sim, rels, now, frames, others>>

\* the query at line 260 is outside every try block: its failure is the
\* failure of the whole call
BatchQueryFails ==
    /\ batch.pc = "idle"
    /\ batch' = [IdleBatch EXCEPT !.pc = "raised"]
    /\ UNCHANGED <<points, sim, rels, now, frames, others>>

\* line 279: the next conversation enters findRelatedConversations, with the
\* default limit
BatchCall ==
    /\ batch.pc = "loop"
    /\ batch.i <= Len(batch.ids)
    /\ frames["batch"].pc = "idle"
    /\ Enter("batch", batch.ids[batch.i], batch.minSimilarity, DefaultLimit)
    /\ UNCHANGED <<points, sim, rels, now, batch, others>>

\* lines 280-282: the call returned
BatchSuccess ==
    /\ batch.pc = "loop"
    /\ frames["batch"].pc = "returned"
    /\ batch' = [batch EXCEPT
          !.i = @ + 1,
          !.results.success = @ + 1,
          !.results.relationships = @ + Len(frames["batch"].relationships)]
    /\ frames' = [frames EXCEPT !["batch"] = IdleFrame]
    /\ processed' = processed \cup {frames["batch"].id}
    /\ UNCHANGED <<points, sim, rels, now, cvars, fvars, cancelRequested, pvars,
                   kvars, svars, qvars, bvars>>

\* the loop without its try block: the error of one conversation ends the batch
BatchRethrow ==
    /\ batch.pc = "loop"
    /\ frames["batch"].pc = "threw"
    /\ batch' = [batch EXCEPT !.pc = "raised"]
    /\ frames' = [frames EXCEPT !["batch"] = IdleFrame]
    /\ UNCHANGED <<points, sim, rels, now, others>>

\* lines 283-286: the call threw: it is logged and counted
BatchCatch ==
    /\ batch.pc = "loop"
    /\ frames["batch"].pc = "threw"
    /\ batch' = [batch EXCEPT !.i = @ + 1, !.results.failed = @ + 1]
    /\ frames' = [frames EXCEPT !["batch"] = IdleFrame]
    /\ UNCHANGED <<points, sim, rels, now, others>>

\* line 289
BatchReturn ==
    /\ batch.pc = "loop"
    /\ batch.i > Len(batch.ids)
    /\ batch' = [batch EXCEPT !.pc = "done"]
    /\ UNCHANGED <<points, sim, rels, now, frames, others>>

\* the caller has the counts (or the error); a later run may start
BatchEnds ==
    /\ batch.pc \in {"done", "raised"}
    /\ batch' = IdleBatch
    /\ cancelRequested' = FALSE
    /\ UNCHANGED <<points, sim, rels, now, frames, cvars, fvars, hvars, pvars, kvars, svars, qvars, bvars>>

\* the caller of a running batch asks for its cancellation; the method has
\* no parameter and reads no field through which the request could reach it
RequestCancel ==
    /\ batch.pc = "loop"
    /\ ~cancelRequested
    /\ cancelRequested' = TRUE
    /\ UNCHANGED <<gvars, cvars, fvars, hvars, pvars, kvars, svars, qvars, bvars>>

-----------------------------------------------------------------------------
(* EmbeddingService.processConversation *)

maxRetries == 3
MaxLog == 2

\* attempts counts the entries into the try block of one top-level call; the
\* code has no such counter
IdleEmbed == [pc |-> "idle", id |-> "none", retryCount |-> 0, attempts |-> 0]

\* the awaited statements of the try block, any of which may throw
Stages == {"processing", "select", "embedding", "upsert", "completed"}

\* !conv.user_prompt
NoUserPrompt(id) == ~(conversations[id].user_prompt.kind = "string"
                      /\ Len(conversations[id].user_prompt.s) > 0)

\* UPDATE conversations SET embedding_status = $1 WHERE id = $2: no row, and
\* no error, for an id the table does not have
SetStatus(table, id, status) ==
    IF id \in Ids THEN [table EXCEPT ![id] = status] ELSE table

\* processConversation(conversationId), retryCount = 0
ProcessConversation(id) ==
    /\ embed.pc = "idle"
    /\ BagCardinality(errorLog) < MaxLog
    /\ embed' = [IdleEmbed EXCEPT !.pc = "try", !.id = id, !.attempts = 1]
    /\ UNCHANGED <<embedBatch, embeddingStatus, errorLog, cvars, gvars, fvars, evars, hvars, pvars, kvars, qvars, bvars>>

\* lines 748-815: every statement of the try block succeeds
TryCompletes ==
    /\ embed.pc = "try"
    /\ embed.id \in Ids
    /\ ~NoUserPrompt(embed.id)
    /\ points' = points \cup {embed.id}
    /\ embeddingStatus' = SetStatus(embeddingStatus, embed.id, "completed")
    /\ embed' = [embed EXCEPT !.pc = "returned"]
    /\ UNCHANGED <<embedBatch, errorLog, sim, rels, now, frames, batch, cvars, fvars, evars, hvars, pvars, kvars, qvars, bvars>>

\* the conversation without user prompt is skipped with a bare return: the
\* status stays at processing
TryNoUserPromptSkips ==
    /\ embed.pc = "try"
    /\ embed.id \in Ids
    /\ NoUserPrompt(embed.id)
    /\ embeddingStatus' = SetStatus(embeddingStatus, embed.id, "processing")
    /\ embed' = [embed EXCEPT !.pc = "returned"]
    /\ UNCHANGED <<embedBatch, errorLog, cvars, gvars, fvars, evars, hvars, pvars, kvars, qvars, bvars>>

\* lines 778-785: no user prompt: the status is set to failed and the call
\* returns, with no row written to embeddings_error_log
TryNoUserPrompt ==
    /\ embed.pc = "try"
    /\ embed.id \in Ids
    /\ NoUserPrompt(embed.id)
    /\ embeddingStatus' = SetStatus(embeddingStatus, embed.id, "failed")
    /\ embed' = [embed EXCEPT !.pc = "returned"]
    /\ UNCHANGED <<embedBatch, errorLog, cvars, gvars, fvars, evars, hvars, pvars, kvars, qvars, bvars>>

\* a statement of the try block throws (a failing query, the embedding
\* model, Qdrant, or 'Conversation not found'): what the statements before
\* it did stays done
TryThrows(stage) ==
    /\ embed.pc = "try"
    /\ stage = "select" \/ embed.id \in Ids
    /\ stage \in {"embedding", "upsert", "completed"} => ~NoUserPrompt(embed.id)
    /\ embeddingStatus' =
          IF stage = "processing" THEN embeddingStatus
          ELSE SetStatus(embeddingStatus, embed.id, "processing")
    /\ points' = IF stage = "completed" THEN points \cup {embed.id} ELSE points
    /\ embed' = [embed EXCEPT !.pc = "catch"]
    /\ UNCHANGED <<embedBatch, errorLog, sim, rels, now, frames, batch, cvars, fvars, evars, hvars, pvars, kvars, qvars, bvars>>

\* lines 820-824: retryCount < maxRetries: wait, then call again
Retry ==
    /\ embed.pc = "catch"
    /\ embed.retryCount < maxRetries
    /\ embed' = [embed EXCEPT !.pc = "try", !.retryCount = @ + 1,
                              !.attempts = @ + 1]
    /\ UNCHANGED <<embedBatch, embeddingStatus, errorLog, cvars, gvars, fvars, evars, hvars, pvars, kvars, qvars, bvars>>

\* lines 827-831: no retry is left: the status is set to failed
MarkFailed ==
    /\ embed.pc = "catch"
    /\ embed.retryCount >= maxRetries
    /\ embeddingStatus' = SetStatus(embeddingStatus, embed.id, "failed")
    /\ embed' = [embed EXCEPT !.pc = "log"]
    /\ UNCHANGED <<embedBatch, errorLog, cvars, gvars, fvars, evars, hvars, pvars, kvars, qvars, bvars>>

\* the UPDATE of the catch block throws: the call rejects
MarkFailedThrows ==
    /\ embed.pc = "catch"
    /\ embed.retryCount >= maxRetries
    /\ embed' = [embed EXCEPT !.pc = "threw"]
    /\ UNCHANGED <<embedBatch, embeddingStatus, errorLog, cvars, gvars, fvars, evars, hvars, pvars, kvars, qvars, bvars>>

\* lines 833-837: the row of embeddings_error_log
LogError ==
    /\ embed.pc = "log"
    /\ embed.id \in Ids
    /\ errorLog' = errorLog (+) SetToBag({[conversation_id |-> embed.id,
                                           retry_count |-> embed.retryCount]})
    /\ embed' = [embed EXCEPT !.pc = "returned"]
    /\ UNCHANGED <<embedBatch, embeddingStatus, cvars, gvars, fvars, evars, hvars, pvars, kvars, qvars, bvars>>

\* the INSERT throws (the database fails, or the foreign key has no
\* conversation to refer to): the call rejects
LogErrorThrows ==
    /\ embed.pc = "log"
    /\ embed' = [embed EXCEPT !.pc = "threw"]
    /\ UNCHANGED <<embedBatch, embeddingStatus, errorLog, cvars, gvars, fvars, evars, hvars, pvars, kvars, qvars, bvars>>

\* the caller has the outcome; a later call may start
ProcessEnds ==
    /\ embed.pc \in {"returned", "threw"}
    /\ embedBatch.pc # "awaiting"
    /\ embed' = IdleEmbed
    /\ UNCHANGED <<embedBatch, embeddingStatus, errorLog, cvars, gvars, fvars, evars, hvars, pvars, kvars, qvars, bvars>>

-----------------------------------------------------------------------------
(* EmbeddingService.batchProcessExisting *)

DefaultExistingLimit == 100
ExistingLimits == {1, DefaultExistingLimit}

IdleExisting ==
    [pc |-> "idle", ids |-> <<>>, i |-> 0, results |-> [success |-> 0, failed |-> 0]]

\* get_unprocessed_conversations(limit_count): the pending conversations,
\* newest first
Unprocessed(table, lim) ==
    LET pending == {id \in Ids : table[id] = "pending"}
        n == Cardinality(pending)
        ordered == CHOOSE o \in [1..n -> pending] :
                      /\ Injective(o)
                      /\ \A i, j \in 1..n : i < j =>
                           conversations[o[i]].started_at >= conversations[o[j]].started_at
    IN  SubSeq(ordered, 1, Min(lim, n))

ExistingStart(lim) ==
    /\ embedBatch.pc = "idle"
    /\ embedBatch' = [IdleExisting EXCEPT !.pc = "loop", !.i = 1,
                                          !.ids = Unprocessed(embeddingStatus, lim)]
    /\ UNCHANGED <<embeddingStatus, errorLog, embed, cvars, gvars, fvars, evars,
                   hvars, pvars, kvars, qvars, bvars>>

\* the query is outside the try block: its failure rejects the batch
ExistingQueryFails ==
    /\ embedBatch.pc = "idle"
    /\ embedBatch' = [IdleExisting EXCEPT !.pc = "raised"]
    /\ UNCHANGED <<embeddingStatus, errorLog, embed, cvars, gvars, fvars, evars,
                   hvars, pvars, kvars, qvars, bvars>>

\* await this.processConversation(id)
ExistingCall ==
    /\ embedBatch.pc = "loop"
    /\ embedBatch.i <= Len(embedBatch.ids)
    /\ embed.pc = "idle"
    /\ embed' = [IdleEmbed EXCEPT !.pc = "try", !.id = embedBatch.ids[embedBatch.i],
                                  !.attempts = 1]
    /\ embedBatch' = [embedBatch EXCEPT !.pc = "awaiting"]
    /\ UNCHANGED <<embeddingStatus, errorLog, cvars, gvars, fvars, evars, hvars,
                   pvars, kvars, qvars, bvars>>

\* the call resolved: results.success++
ExistingSuccess ==
    /\ embedBatch.pc = "awaiting"
    /\ embed.pc = "returned"
    /\ embedBatch' = [embedBatch EXCEPT !.pc = "loop", !.i = @ + 1,
                                        !.results.success = @ + 1]
    /\ embed' = IdleEmbed
    /\ UNCHANGED <<embeddingStatus, errorLog, cvars, gvars, fvars, evars, hvars,
                   pvars, kvars, qvars, bvars>>

\* the call rejected: results.failed++
ExistingCatch ==
    /\ embedBatch.pc = "awaiting"
    /\ embed.pc = "threw"
    /\ embedBatch' = [embedBatch EXCEPT !.pc = "loop", !.i = @ + 1,
                                        !.results.failed = @ + 1]
    /\ embed' = IdleEmbed
    /\ UNCHANGED <<embeddingStatus, errorLog, cvars, gvars, fvars, evars, hvars,
                   pvars, kvars, qvars, bvars>>

ExistingReturn ==
    /\ embedBatch.pc = "loop"
    /\ embedBatch.i > Len(embedBatch.ids)
    /\ embedBatch' = [embedBatch EXCEPT !.pc = "done"]
    /\ UNCHANGED <<embeddingStatus, errorLog, embed, cvars, gvars, fvars, evars,
                   hvars, pvars, kvars, qvars, bvars>>

\* the caller has the counts (or the error)
ExistingEnds ==
    /\ embedBatch.pc \in {"done", "raised"}
    /\ embedBatch' = IdleExisting
    /\ UNCHANGED <<embeddingStatus, errorLog, embed, cvars, gvars, fvars, evars,
                   hvars, pvars, kvars, qvars, bvars>>

\* the embedding service is not running; the statuses are the table's
EmbedIdle ==
    /\ embeddingStatus = [id \in Ids |-> conversations[id].embedding_status]
    /\ errorLog = EmptyBag
    /\ embed = IdleEmbed
    /\ embedBatch = IdleExisting

\* no conversation has been processed yet
EmbedInit ==
    /\ embeddingStatus = [id \in Ids |-> "pending"]
    /\ errorLog = EmptyBag
    /\ embed = IdleEmbed
    /\ embedBatch = IdleExisting

NextEmbed ==
    \/ \E id \in PointIds : ProcessConversation(id)
    \/ TryCompletes
    \/ TryNoUserPrompt
    \/ \E stage \in Stages : TryThrows(stage)
    \/ Retry
    \/ MarkFailed
    \/ MarkFailedThrows
    \/ LogError
    \/ LogErrorThrows
    \/ ProcessEnds

\* the batch as the only caller of processConversation
NextExisting ==
    \/ TryCompletes
    \/ TryNoUserPrompt
    \/ \E stage \in Stages : TryThrows(stage)
    \/ Retry
    \/ MarkFailed
    \/ MarkFailedThrows
    \/ LogError
    \/ LogErrorThrows
    \/ \E lim \in ExistingLimits : ExistingStart(lim)
    \/ ExistingQueryFails
    \/ ExistingCall
    \/ ExistingSuccess
    \/ ExistingCatch
    \/ ExistingReturn
    \/ ExistingEnds

-----------------------------------------------------------------------------
(* AIConversationCapture: queueMessage and syncMessages.  A message is the  *)
(* number of its capture: 1 is the first message queueMessage accepted      *)

enableCapture == TRUE
AutoSyncSize == 10
MaxMessages == 3
MaxDeliveries == 3

\* two calls of syncMessages may be awaiting at a time
Slots == {1, 2}

IdleSync == [pc |-> "idle", force |-> FALSE, messages |-> <<>>, stored |-> <<>>]

Elements(q) == {q[i] : i \in 1..Len(q)}

\* the next call of syncMessages awaits in the first free slot
FreeSlot(slot) ==
    /\ syncs[slot].pc = "idle"
    /\ \A t \in Slots : t < slot => syncs[t].pc # "idle"

\* lines 693-696, with q the queue at the call: the call takes the whole
\* queue and leaves it empty, then awaits fetch
TakeQueue(slot, force, q) ==
    /\ enableCapture /\ q # <<>>
    /\ syncs' = [syncs EXCEPT ![slot] =
                    [IdleSync EXCEPT !.pc = "fetch", !.force = force, !.messages = q]]
    /\ messageQueue' = <<>>

\* queueMessage: push, and syncMessages() when the queue has 10 messages
QueueMessage ==
    /\ enableCapture
    /\ captured < MaxMessages
    /\ captured' = captured + 1
    /\ LET q == Append(messageQueue, captured + 1) IN
         IF Len(q) >= AutoSyncSize
         THEN \E slot \in Slots : FreeSlot(slot) /\ TakeQueue(slot, FALSE, q)
         ELSE messageQueue' = q /\ UNCHANGED syncs
    /\ UNCHANGED <<delivered, failedMessages, cvars, gvars, fvars, evars, hvars, pvars, kvars, svars, bvars>>

\* syncMessages(force) called by the timer (line 295), by beforeunload
\* (line 299) or by destroy (line 751)
SyncMessages(slot, force) ==
    /\ FreeSlot(slot)
    /\ TakeQueue(slot, force, messageQueue)
    /\ UNCHANGED <<delivered, failedMessages, captured, cvars, gvars, fvars, evars, hvars, pvars, kvars,
                   svars, bvars>>

\* lines 701-722: response.ok, the sync status is stored, the call returns
FetchOk(slot) ==
    /\ syncs[slot].pc = "fetch"
    /\ delivered' = Append(delivered, syncs[slot].messages)
    /\ syncs' = [syncs EXCEPT ![slot] = IdleSync]
    /\ UNCHANGED <<messageQueue, failedMessages, captured, cvars, gvars, fvars, evars, hvars, pvars, kvars,
                   svars, bvars>>

\* lines 723-737: fetch rejects, the response is not ok or the status cannot
\* be stored; the backend may have received the request all the same.  A
\* normal call pushes its messages back and returns, a forced call goes on
\* to read failedMessages
FetchFails(slot, received) ==
    /\ syncs[slot].pc = "fetch"
    /\ received => Len(delivered) < MaxDeliveries
    /\ delivered' = IF received THEN Append(delivered, syncs[slot].messages)
                    ELSE delivered
    /\ IF syncs[slot].force
       THEN /\ syncs' = [syncs EXCEPT ![slot].pc = "get"]
            /\ UNCHANGED messageQueue
       ELSE /\ syncs' = [syncs EXCEPT ![slot] = IdleSync]
            /\ messageQueue' = messageQueue \o syncs[slot].messages
    /\ UNCHANGED <<failedMessages, captured, cvars, gvars, fvars, evars, hvars, pvars, kvars, svars, bvars>>

\* line 734: chrome.storage.local.get answers with the list as it is now
StorageGet(slot) ==
    /\ syncs[slot].pc = "get"
    /\ syncs' = [syncs EXCEPT ![slot].pc = "set", ![slot].stored = failedMessages]
    /\ UNCHANGED <<messageQueue, delivered, failedMessages, captured, cvars, gvars,
                   fvars, evars, hvars, pvars, kvars, svars, bvars>>

\* lines 735-736: the list that was read, with the messages pushed, is written
StorageSet(slot) ==
    /\ syncs[slot].pc = "set"
    /\ failedMessages' = syncs[slot].stored \o syncs[slot].messages
    /\ syncs' = [syncs EXCEPT ![slot] = IdleSync]
    /\ UNCHANGED <<messageQueue, delivered, captured, cvars, gvars, fvars, evars, hvars, pvars, kvars,
                   svars, bvars>>

\* the constructor: an empty queue, nothing synced, nothing stored
SyncIdle ==
    /\ messageQueue = <<>>
    /\ syncs = [slot \in Slots |-> IdleSync]
    /\ delivered = <<>>
    /\ failedMessages = <<>>
    /\ captured = 0

NextSync ==
    \/ QueueMessage
    \/ \E slot \in Slots, force \in BOOLEAN : SyncMessages(slot, force)
    \/ \E slot \in Slots : FetchOk(slot)
    \/ \E slot \in Slots, received \in BOOLEAN : FetchFails(slot, received)
    \/ \E slot \in Slots : StorageGet(slot)
    \/ \E slot \in Slots : StorageSet(slot)

-----------------------------------------------------------------------------
(* backup-automated.ts: main and cleanupOldBackups.  A date is a day number; *)
(* the timestamp of a file name is the date in digits, zero-padded as       *)
(* toISOString() pads it                                                    *)

MaxDay == 11

\* the days of the runs: the timestamps go from 08 to 11 and pass from one
\* leading digit to the next
Days == 8..MaxDay
Retentions == {1, 2}
BackupTypes == {"daily", "weekly"}

\* new Date().toISOString().split('T')[0]
Timestamp(day) == <<day \div 10, day % 10>>

\* `${backupPath}/backup-${type}-${timestamp}.zip`
BackupFile(type, day) == [type |-> type, timestamp |-> Timestamp(day)]

\* the order of strings: a < b
StringLess(a, b) ==
    \/ \E i \in 1..Min(Len(a), Len(b)) :
          a[i] < b[i] /\ \A j \in 1..(i - 1) : a[j] = b[j]
    \/ Len(a) < Len(b) /\ \A j \in 1..Len(a) : a[j] = b[j]

\* .filter((f) => f.includes('-daily-')) or '-weekly-'
OfType(files, type) == {f \in files : f.type = type}

\* .sort() on the names of one type: the least string first
RECURSIVE sort(_)
sort(files) ==
    IF files = {} THEN <<>>
    ELSE LET least == CHOOSE f \in files :
                         \A g \in files \ {f} : StringLess(f.timestamp, g.timestamp)
         IN  <<least>> \o sort(files \ {least})

\* the list as .sort() left it
notReversed(q) == q

\* .reverse()
reverse(q) == [i \in 1..Len(q) |-> q[Len(q) + 1 - i]]

\* if (backups.length > keep) toDelete = backups.slice(keep)
ToDelete(backups, keep) ==
    IF Len(backups) > keep THEN SubSeq(backups, keep + 1, Len(backups)) ELSE <<>>

\* the files cleanupOldBackups unlinks, in the order it unlinks them
Unlinked(files, ret) ==
    ToDelete(reverse(sort(OfType(files, "daily"))), ret.daily)
      \o ToDelete(reverse(sort(OfType(files, "weekly"))), ret.weekly)

IdleRun == [pc |-> "idle", type |-> "none", filename |-> BackupFile("none", 0)]

\* bun run backup-automated.ts daily | weekly: the file name is fixed first
BackupStart(type) ==
    /\ backupRun.pc = "idle"
    /\ backupRun' = [pc |-> "create", type |-> type,
                     filename |-> BackupFile(type, today)]
    /\ UNCHANGED <<backupDir, today, retention, createdBackups, cvars, gvars, fvars,
                   evars, hvars, pvars, kvars, svars, qvars>>

\* exportService.createBackup(filename) and stat succeed
CreateBackup ==
    /\ backupRun.pc = "create"
    /\ backupDir' = backupDir \cup {backupRun.filename}
    /\ createdBackups' = createdBackups \cup {backupRun.filename}
    /\ backupRun' = [backupRun EXCEPT !.pc = "cleanup"]
    /\ UNCHANGED <<today, retention, cvars, gvars, fvars, evars, hvars, pvars, kvars, svars, qvars>>

\* createBackup throws after createWriteStream has opened the file: the
\* script exits with status 1 and runs no cleanup
CreateBackupFails ==
    /\ backupRun.pc = "create"
    /\ backupDir' = backupDir \cup {backupRun.filename}
    /\ createdBackups' = createdBackups \cup {backupRun.filename}
    /\ backupRun' = [backupRun EXCEPT !.pc = "failed"]
    /\ UNCHANGED <<today, retention, cvars, gvars, fvars, evars, hvars, pvars, kvars, svars, qvars>>

\* cleanupOldBackups returns
Cleanup ==
    /\ backupRun.pc = "cleanup"
    /\ backupDir' = backupDir \ Elements(Unlinked(backupDir, retention))
    /\ backupRun' = [backupRun EXCEPT !.pc = "cleaned"]
    /\ UNCHANGED <<today, retention, createdBackups, cvars, gvars, fvars, evars, hvars, pvars, kvars,
                   svars, qvars>>

\* readdir or an unlink throws: the files unlinked before it are gone, the
\* script exits with status 1
CleanupFails ==
    /\ backupRun.pc = "cleanup"
    /\ \E k \in 0..Len(Unlinked(backupDir, retention)) :
         backupDir' = backupDir \ Elements(SubSeq(Unlinked(backupDir, retention), 1, k))
    /\ backupRun' = [backupRun EXCEPT !.pc = "failed"]
    /\ UNCHANGED <<today, retention, createdBackups, cvars, gvars, fvars, evars, hvars, pvars, kvars,
                   svars, qvars>>

\* logBackup, db.end: the process exits
BackupEnds ==
    /\ backupRun.pc \in {"cleaned", "failed"}
    /\ backupRun' = IdleRun
    /\ UNCHANGED <<backupDir, today, retention, createdBackups, cvars, gvars, fvars,
                   evars, hvars, pvars, kvars, svars, qvars>>

NextDay ==
    /\ today < MaxDay
    /\ today' = today + 1
    /\ UNCHANGED <<backupDir, backupRun, retention, createdBackups, cvars, gvars,
                   fvars, evars, hvars, pvars, kvars, svars, qvars>>

\* no backup has run; the retention is the default one
BackupIdle ==
    /\ backupDir = {}
    /\ backupRun = IdleRun
    /\ today = 8
    /\ retention = [daily |-> 7, weekly |-> 4]
    /\ createdBackups = {}

\* no backup has run; BACKUP_RETENTION_DAILY and BACKUP_RETENTION_WEEKLY
\* set the retention
BackupInit ==
    /\ backupDir = {}
    /\ backupRun = IdleRun
    /\ today = 8
    /\ retention \in [daily : Retentions, weekly : Retentions]
    /\ createdBackups = {}

NextBackup ==
    \/ \E type \in BackupTypes : BackupStart(type)
    \/ CreateBackup
    \/ CreateBackupFails
    \/ Cleanup
    \/ CleanupFails
    \/ BackupEnds
    \/ NextDay

-----------------------------------------------------------------------------
(* POST /api/capture: processMessages and storeConversation.  A message is   *)
(* its conversationId and its content, a number; the transaction of          *)
(* storeConversation is one step                                             *)

MaxRequest == 2

ConversationIds == {"k1", "k2"}
Contents == {1, 2}
CapturedMessages == [conversationId : ConversationIds, content : Contents]

\* the bodies the handler passes on: messages.length === 0 is answered 400
Requests == UNION {[1..n -> CapturedMessages] : n \in 1..MaxRequest}

\* the keys of conversationMap, in the order of their insertion
RECURSIVE Keys(_, _)
Keys(messages, acc) ==
    IF messages = <<>> THEN acc
    ELSE LET convId == Head(messages).conversationId IN
         Keys(Tail(messages),
              IF \E i \in 1..Len(acc) : acc[i] = convId THEN acc
              ELSE Append(acc, convId))

\* conversationMap.get(convId)
RECURSIVE Group(_, _)
Group(messages, convId) ==
    IF messages = <<>> THEN <<>>
    ELSE IF Head(messages).conversationId = convId
         THEN <<Head(messages)>> \o Group(Tail(messages), convId)
         ELSE Group(Tail(messages), convId)

conversationMap(messages) ==
    LET keys == Keys(messages, <<>>) IN
    [g \in 1..Len(keys) |->
        [conversationId |-> keys[g], convMessages |-> Group(messages, keys[g])]]

\* INSERT INTO messages ... ON CONFLICT (conversation_id, sequence_number)
\* DO NOTHING
InsertMessage(table, row) ==
    IF \E r \in table : /\ r.conversation_id = row.conversation_id
                        /\ r.sequence_number = row.sequence_number
    THEN table
    ELSE table \cup {row}

\* the loop of storeConversation: message i of the request's group is
\* inserted with sequence_number i
RECURSIVE StoreMessages(_, _, _, _)
StoreMessages(table, dbConversationId, messages, i) ==
    IF i >= Len(messages) THEN table
    ELSE StoreMessages(
            InsertMessage(table, [conversation_id |-> dbConversationId,
                                  sequence_number |-> i,
                                  content |-> messages[i + 1].content]),
            dbConversationId, messages, i + 1)

IdleCapture ==
    [pc |-> "idle", messages |-> <<>>, groups |-> <<>>, g |-> 0,
     results |-> [processed |-> 0, stored |-> 0, errors |-> <<>>]]

\* the handler calls processMessages, which groups the messages
CaptureRequest(messages) ==
    /\ capture.pc = "idle"
    /\ capture' = [IdleCapture EXCEPT !.pc = "loop", !.messages = messages,
                                      !.groups = conversationMap(messages),
                                      !.g = 1]
    /\ UNCHANGED <<database, cvars, gvars, fvars, evars, hvars, kvars, svars,
                   qvars, bvars>>

\* storeConversation commits: the conversation is upserted by its source_id,
\* the messages are inserted
StoreConversation ==
    LET group == capture.groups[capture.g] IN
    /\ capture.pc = "loop"
    /\ capture.g <= Len(capture.groups)
    /\ database' =
          [conversations |-> database.conversations \cup {group.conversationId},
           messages |-> StoreMessages(database.messages, group.conversationId,
                                      group.convMessages, 0)]
    /\ capture' = [capture EXCEPT
          !.g = @ + 1,
          !.results.stored = @ + Len(group.convMessages),
          !.results.processed = @ + Len(group.convMessages)]
    /\ UNCHANGED <<cvars, gvars, fvars, evars, hvars, kvars, svars, qvars, bvars>>

\* a statement of the transaction fails: ROLLBACK, the error is caught by
\* processMessages
StoreConversationFails ==
    LET group == capture.groups[capture.g] IN
    /\ capture.pc = "loop"
    /\ capture.g <= Len(capture.groups)
    /\ capture' = [capture EXCEPT
          !.g = @ + 1,
          !.results.errors = Append(@, group.conversationId),
          !.results.processed = @ + Len(group.convMessages)]
    /\ UNCHANGED <<database, cvars, gvars, fvars, evars, hvars, kvars, svars,
                   qvars, bvars>>

\* processMessages returns its results
CaptureReturn ==
    /\ capture.pc = "loop"
    /\ capture.g > Len(capture.groups)
    /\ capture' = [capture EXCEPT !.pc = "done"]
    /\ UNCHANGED <<database, cvars, gvars, fvars, evars, hvars, kvars, svars,
                   qvars, bvars>>

\* the handler has answered
CaptureEnds ==
    /\ capture.pc = "done"
    /\ capture' = IdleCapture
    /\ UNCHANGED <<database, cvars, gvars, fvars, evars, hvars, kvars, svars,
                   qvars, bvars>>

CaptureIdle ==
    /\ database = [conversations |-> {}, messages |-> {}]
    /\ capture = IdleCapture

NextCapture ==
    \/ \E messages \in Requests : CaptureRequest(messages)
    \/ StoreConversation
    \/ StoreConversationFails
    \/ CaptureReturn
    \/ CaptureEnds

-----------------------------------------------------------------------------
(* TemplateExtractor.clusterSimilarPrompts, on the stores of the            *)
(* relationship mapper                                                     *)

similarityThreshold == 85
ClusterSearchLimit == 50

\* the argument: rows of table conversations, each id once
ConversationLists ==
    {l \in UNION {[1..n -> Ids] : n \in 0..Cardinality(Ids)} : Injective(l)}

\* qdrant.search with the vector of the point id and no filter: the nearest
\* points with score >= threshold, best first; the point id itself has
\* score 1
SimilarPrompts(id, threshold, lim) ==
    LET hits == {[id |-> p, score |-> IF p = id THEN 100 ELSE sim[{id, p}]] :
                    p \in {q \in points :
                              q = id \/ sim[{id, q}] >= threshold}}
        n == Min(lim, Cardinality(hits))
    IN  {r \in [1..n -> hits] :
            /\ Injective(r)
            /\ \A i, j \in 1..n : i < j => r[i].score >= r[j].score
            /\ \A h \in hits : (\A i \in 1..n : r[i] # h) =>
                                 \A i \in 1..n : r[i].score >= h.score}

\* the loop over similarResults: a match is added when it is among the
\* conversations, is not in processed and has a prompt
RECURSIVE AddMatches(_, _, _, _)
AddMatches(convs, matches, clusterIds, done) ==
    IF matches = <<>> THEN [clusterIds |-> clusterIds, processed |-> done]
    ELSE LET id == Head(matches).id IN
         IF /\ \E j \in 1..Len(convs) : convs[j] = id
            /\ id \notin done
            /\ Truthy(conversations[id].user_prompt)
         THEN AddMatches(convs, Tail(matches), Append(clusterIds, id),
                         done \cup {id})
         ELSE AddMatches(convs, Tail(matches), clusterIds, done)

IdleCluster ==
    [pc |-> "idle", conversations |-> <<>>, i |-> 0, processed |-> {},
     clusters |-> <<>>]

ClusterStart(convs) ==
    /\ clusterRun.pc = "idle"
    /\ clusterRun' = [IdleCluster EXCEPT !.pc = "loop", !.conversations = convs,
                                         !.i = 1]
    /\ UNCHANGED <<cvars, gvars, fvars, evars, hvars, pvars, svars, qvars, bvars>>

\* the conversation is in processed or has no prompt: continue
ClusterSkip ==
    LET id == clusterRun.conversations[clusterRun.i] IN
    /\ clusterRun.pc = "loop"
    /\ clusterRun.i <= Len(clusterRun.conversations)
    /\ id \in clusterRun.processed \/ ~Truthy(conversations[id].user_prompt)
    /\ clusterRun' = [clusterRun EXCEPT !.i = @ + 1]
    /\ UNCHANGED <<cvars, gvars, fvars, evars, hvars, pvars, svars, qvars, bvars>>

\* qdrant.retrieve finds no point: continue
ClusterNoPoint ==
    LET id == clusterRun.conversations[clusterRun.i] IN
    /\ clusterRun.pc = "loop"
    /\ clusterRun.i <= Len(clusterRun.conversations)
    /\ id \notin clusterRun.processed /\ Truthy(conversations[id].user_prompt)
    /\ id \notin points
    /\ clusterRun' = [clusterRun EXCEPT !.i = @ + 1]
    /\ UNCHANGED <<cvars, gvars, fvars, evars, hvars, pvars, svars, qvars, bvars>>

\* qdrant.retrieve or qdrant.search throws: the catch warns and continues
ClusterQueryFails ==
    LET id == clusterRun.conversations[clusterRun.i] IN
    /\ clusterRun.pc = "loop"
    /\ clusterRun.i <= Len(clusterRun.conversations)
    /\ id \notin clusterRun.processed /\ Truthy(conversations[id].user_prompt)
    /\ clusterRun' = [clusterRun EXCEPT !.i = @ + 1]
    /\ UNCHANGED <<cvars, gvars, fvars, evars, hvars, pvars, svars, qvars, bvars>>

\* the search is answered: the cluster starts with the conversation, the
\* matches are added, the conversation is put in processed, and a cluster
\* of two or more members is kept
ClusterConversation ==
    LET id == clusterRun.conversations[clusterRun.i] IN
    /\ clusterRun.pc = "loop"
    /\ clusterRun.i <= Len(clusterRun.conversations)
    /\ id \notin clusterRun.processed /\ Truthy(conversations[id].user_prompt)
    /\ id \in points
    /\ \E similarResults \in SimilarPrompts(id, similarityThreshold, ClusterSearchLimit) :
         LET out == AddMatches(clusterRun.conversations, similarResults, <<id>>,
                               clusterRun.processed)
         IN  clusterRun' = [clusterRun EXCEPT
                !.i = @ + 1,
                !.processed = out.processed \cup {id},
                !.clusters = IF Len(out.clusterIds) >= 2
                             THEN Append(@, out.clusterIds) ELSE @]
    /\ UNCHANGED <<cvars, gvars, fvars, evars, hvars, pvars, svars, qvars, bvars>>

ClusterReturn ==
    /\ clusterRun.pc = "loop"
    /\ clusterRun.i > Len(clusterRun.conversations)
    /\ clusterRun' = [clusterRun EXCEPT !.pc = "done"]
    /\ UNCHANGED <<cvars, gvars, fvars, evars, hvars, pvars, svars, qvars, bvars>>

ClusterEnds ==
    /\ clusterRun.pc = "done"
    /\ clusterRun' = IdleCluster
    /\ UNCHANGED <<cvars, gvars, fvars, evars, hvars, pvars, svars, qvars, bvars>>

ClusterIdle == clusterRun = IdleCluster

NextCluster ==
    \/ \E convs \in ConversationLists : ClusterStart(convs)
    \/ ClusterSkip
    \/ ClusterNoPoint
    \/ ClusterQueryFails
    \/ ClusterConversation
    \/ ClusterReturn
    \/ ClusterEnds

-----------------------------------------------------------------------------
(* The relationship mapper as a state machine *)

NoResponse == [status |-> 0, results |-> <<>>, total |-> 0]

ClassifierIdle ==
    /\ source = [project |-> Null, started_at |-> 1, topics |-> {}, user_prompt |-> Null]
    /\ target = [project |-> Null, started_at |-> 1, topics |-> {}, user_prompt |-> Null]
    /\ similarity = 0
    /\ relationshipType = "pending"

SearchIdle ==
    /\ route = "none"
    /\ query = Undefined
    /\ vectorResults = [ok |-> TRUE, hits |-> <<>>]
    /\ invoked = {}
    /\ vectorData = [ok |-> TRUE, results |-> <<>>]
    /\ textResult = [ok |-> TRUE, rows |-> <<>>]
    /\ limit = 0
    /\ response = NoResponse

MapperInit ==
    /\ points \in PointSets
    /\ sim \in SimTables
    /\ rels = EmptyBag
    /\ now = 0
    /\ frames = [c \in Callers |-> IdleFrame]
    /\ batch = IdleBatch
    /\ cancelRequested = FALSE
    /\ processed = {}

Init == ClassifierIdle /\ SearchIdle /\ MapperInit /\ EmbedIdle /\ SyncIdle /\ BackupIdle /\ CaptureIdle /\ ClusterIdle

Next ==
    \/ \E id \in PointIds, threshold \in Thresholds, lim \in Limits :
         Call(id, threshold, lim)
    \/ CallEnds
    \/ \E c \in Callers : FindNoEmbedding(c)
    \/ \E c \in Callers : FindQueryFails(c)
    \/ \E c \in Callers : FindClassify(c)
    \/ \E c \in Callers : StoreRelationship(c)
    \/ \E c \in Callers : StoreFails(c)
    \/ \E lim \in BatchLimits : BatchStart(lim, DefaultThreshold)
    \/ BatchQueryFails
    \/ BatchCall
    \/ BatchSuccess
    \/ BatchCatch
    \/ BatchReturn
    \/ BatchEnds
    \/ Tick

Spec == Init /\ [][Next]_vars

\* the mapper with a caller that may ask a running batch to stop
NextCancel ==
    \/ Next
    \/ RequestCancel

SpecCancel == Init /\ [][NextCancel]_vars

\* the batch run again and again with limit 1 by a scheduler that never stops,
\* on stores that answer every query: no other caller, no failing query
NextRepeat ==
    \/ BatchStart(1, DefaultThreshold)
    \/ BatchCall
    \/ FindNoEmbedding("batch")
    \/ FindClassify("batch")
    \/ StoreRelationship("batch")
    \/ BatchSuccess
    \/ BatchCatch
    \/ BatchReturn
    \/ BatchEnds
    \/ Tick

SpecRepeat == Init /\ [][NextRepeat]_vars /\ WF_vars(NextRepeat)

-----------------------------------------------------------------------------
(* The classifier alone, on every pair of conversations and every score *)

MapperIdle ==
    /\ points = {}
    /\ sim = [p \in Pairs |-> 0]
    /\ rels = EmptyBag
    /\ now = 0
    /\ frames = [c \in Callers |-> IdleFrame]
    /\ batch = IdleBatch
    /\ cancelRequested = FALSE
    /\ processed = {}

ClassifierInputs ==
    /\ source \in SourceConversations
    /\ target \in TargetConversations
    /\ similarity \in Scores
    /\ relationshipType = "pending"

Classify ==
    /\ relationshipType = "pending"
    /\ relationshipType' = classifyRelationship(source, target, similarity)
    /\ UNCHANGED <<source, target, similarity, gvars, fvars, xvars>>

InitClassify ==
    ClassifierInputs /\ MapperIdle /\ SearchIdle /\ EmbedIdle /\ SyncIdle /\ BackupIdle /\ CaptureIdle /\ ClusterIdle

SpecClassify == InitClassify /\ [][Classify]_vars

-----------------------------------------------------------------------------
(* The search endpoints: POST /api/search, /api/search/semantic and         *)
(* /api/search/hybrid                                                      *)

HybridDefaultLimit == 20
MaxRows == 2

ConvIds == {"conv1", "conv2", "conv3"}

\* rows of search_messages: one row per matching message, several messages
\* may belong to one conversation
MessageRows ==
    {[message_id |-> "m1", conversation_id |-> "conv1"],
     [message_id |-> "m2", conversation_id |-> "conv1"],
     [message_id |-> "m3", conversation_id |-> "conv2"],
     [message_id |-> "m4", conversation_id |-> "conv3"]}

\* rows of v_conversation_details, as /api/search/semantic returns them
ConversationRows == {[id |-> c] : c \in ConvIds}

DistinctSeqs(S, maxLen) ==
    UNION {{q \in [1..n -> S] : Injective(q)} : n \in 0..maxLen}

SearchLimits == {1, 2, HybridDefaultLimit}

Routes == {"/api/search", "/api/search/semantic", "/api/search/hybrid"}

\* the request's query: absent from the body, '', one blank, a word
Queries == {Undefined, Str(<<>>), Str(<<" ">>), Str(<<"m", "c", "p">>)}

\* !query
Falsy(q) == IsNullish(q) \/ Len(q.s) = 0

\* plainto_tsquery('english', query_text) has no lexeme, so that @@ matches
\* no row: a NULL text, or a text of blanks
NoLexemes(q) == IsNullish(q) \/ \A i \in 1..Len(q.s) : q.s[i] = " "

\* SELECT * FROM v_conversation_details WHERE id = ANY(ids): the rows of the
\* hits, in an order the query does not fix
DetailRows(hits) ==
    {r \in DistinctSeqs(ConversationRows, Len(hits)) :
        {r[i].id : i \in 1..Len(r)} = {hits[i] : i \in 1..Len(hits)}}

\* the bodies /api/search/semantic can answer with: { error } when the
\* embedding, qdrant.search or the query throws, else { results, total }
SemanticResponses(vr) ==
    IF ~vr.ok THEN {[ok |-> FALSE, results |-> <<>>]}
    ELSE {[ok |-> TRUE, results |-> r] : r \in DetailRows(vr.hits)}

ErrorResponse(status) == [status |-> status, results |-> <<>>, total |-> 0]

\* POST /api/search/semantic
Semantic ==
    /\ route = "/api/search/semantic"
    /\ response = NoResponse
    /\ \E body \in SemanticResponses(vectorResults) :
         /\ vectorData' = body
         /\ response' =
              IF body.ok
              THEN [status |-> 200, results |-> body.results,
                    total |-> Len(body.results)]
              ELSE ErrorResponse(500)
    /\ invoked' = {"vector"}
    /\ UNCHANGED <<route, query, vectorResults, textResult, limit, cvars, gvars,
                   xvars>>

\* row.id of an element of combined: rows of search_messages have no id
IdOf(row) == IF "id" \in DOMAIN row THEN row.id ELSE "undefined"

\* combined.find((c) => c.id === row.conversation_id)
Found(combined, row) ==
    \E i \in 1..Len(combined) : IdOf(combined[i]) = row.conversation_id

\* textResult.rows.forEach: a row is pushed unless find returns an element
RECURSIVE Combine(_, _)
Combine(combined, rows) ==
    IF rows = <<>> THEN combined
    ELSE Combine(IF Found(combined, Head(rows)) THEN combined
                 ELSE Append(combined, Head(rows)),
                 Tail(rows))

\* Array.prototype.slice(0, n)
Slice(q, n) == SubSeq(q, 1, Min(n, Len(q)))

\* POST /api/search/hybrid: it fetches /api/search/semantic, then queries
\* search_messages; a body of the semantic endpoint without results (its
\* error body) makes the spread throw, a failing query throws; the catch
\* answers 500
Hybrid ==
    /\ route = "/api/search/hybrid"
    /\ response = NoResponse
    /\ \E body \in SemanticResponses(vectorResults) :
         /\ vectorData' = body
         /\ response' =
              IF ~body.ok \/ ~textResult.ok
              THEN ErrorResponse(500)
              ELSE LET combined == Combine(body.results, textResult.rows) IN
                   [status |-> 200, results |-> Slice(combined, limit),
                    total |-> Len(combined)]
    /\ invoked' = {"vector", "lexical"}
    /\ UNCHANGED <<route, query, vectorResults, textResult, limit, cvars, gvars,
                   xvars>>

\* the rows semanticSearch selects: m.id, m.conversation_id, ...
SearchRow(row) == [id |-> row.message_id, conversation_id |-> row.conversation_id]

\* POST /api/search: 400 when !query, else the rows of semanticSearch, which
\* is a full-text query
Search ==
    /\ route = "/api/search"
    /\ response = NoResponse
    /\ IF Falsy(query)
       THEN /\ response' = ErrorResponse(400)
            /\ invoked' = {}
       ELSE /\ response' =
                 IF textResult.ok
                 THEN [status |-> 200,
                       results |-> [i \in 1..Len(textResult.rows) |->
                                       SearchRow(textResult.rows[i])],
                       total |-> Len(textResult.rows)]
                 ELSE ErrorResponse(500)
            /\ invoked' = {"lexical"}
    /\ UNCHANGED <<route, query, vectorResults, vectorData, textResult, limit,
                   cvars, gvars, xvars>>

SearchInputs ==
    /\ route \in Routes
    /\ query \in Queries
    /\ limit \in SearchLimits
    /\ vectorResults \in
         {[ok |-> FALSE, hits |-> <<>>]} \cup
         {[ok |-> TRUE, hits |-> h] :
            h \in DistinctSeqs(ConvIds, Min(limit, MaxRows))}
    /\ textResult \in
         {[ok |-> FALSE, rows |-> <<>>]} \cup
         {[ok |-> TRUE, rows |-> r] :
            r \in IF NoLexemes(query) THEN {<<>>}
                  ELSE DistinctSeqs(MessageRows, Min(limit, MaxRows))}
    /\ vectorData = [ok |-> TRUE, results |-> <<>>]
    /\ invoked = {}
    /\ response = NoResponse

InitSearch ==
    ClassifierIdle /\ MapperIdle /\ SearchInputs /\ EmbedIdle /\ SyncIdle /\ BackupIdle /\ CaptureIdle /\ ClusterIdle

NextSearch ==
    \/ Search
    \/ Semantic
    \/ Hybrid

SpecSearch == InitSearch /\ [][NextSearch]_vars

-----------------------------------------------------------------------------
(* The embedding service alone *)

InitEmbed ==
    ClassifierIdle /\ MapperIdle /\ SearchIdle /\ EmbedInit /\ SyncIdle /\ BackupIdle /\ CaptureIdle /\ ClusterIdle

SpecEmbed == InitEmbed /\ [][NextEmbed]_vars

SpecExisting == InitEmbed /\ [][NextExisting]_vars

-----------------------------------------------------------------------------
(* The capture script alone, and the backup script alone *)

InitSync ==
    ClassifierIdle /\ MapperIdle /\ SearchIdle /\ EmbedIdle /\ SyncIdle /\ BackupIdle /\ CaptureIdle /\ ClusterIdle

SpecSync == InitSync /\ [][NextSync]_vars

InitBackup ==
    ClassifierIdle /\ MapperIdle /\ SearchIdle /\ EmbedIdle /\ SyncIdle /\ BackupInit /\ CaptureIdle /\ ClusterIdle

SpecBackup == InitBackup /\ [][NextBackup]_vars

-----------------------------------------------------------------------------
(* The capture endpoint alone, and the template extractor alone *)

InitCapture ==
    ClassifierIdle /\ MapperIdle /\ SearchIdle /\ EmbedIdle /\ SyncIdle /\ BackupIdle
       /\ CaptureIdle /\ ClusterIdle

SpecCapture == InitCapture /\ [][NextCapture]_vars

InitCluster ==
    ClassifierIdle /\ SearchIdle /\ MapperInit /\ EmbedIdle /\ SyncIdle /\ BackupIdle
       /\ CaptureIdle /\ ClusterIdle

SpecCluster == InitCluster /\ [][NextCluster]_vars

-----------------------------------------------------------------------------
(* Properties of the classifier, under SpecClassify *)

Classified == relationshipType # "pending"

\* both conversations have a non-null project and the two are equal
SameProject ==
    /\ source.project.kind = "string"
    /\ target.project.kind = "string"
    /\ source.project = target.project

\* C1: a score above 0.95 gives near_duplicate, whatever the projects, the
\* start times, the texts and the topics are: rule 1 wins over every later rule
NearDuplicateWins ==
    (Classified /\ similarity > 95) => relationshipType = "near_duplicate"

\* C1, its case: score 0.97 and the same project with different start times,
\* where rule 2 would give builds_on
NearDuplicateWinsWitness ==
    /\ relationshipType = "near_duplicate"
    /\ similarity = 97
    /\ SameProject
    /\ source.started_at # target.started_at

\* C2: with a score of at most 0.95, two conversations with the same non-null
\* project are builds_on, for every pair of start times and every text.
\* Stated of the calls that return a type, so that what refutes it is the
\* same-project rule itself and not the TypeError of C4
SameProjectIsBuildsOn ==
    (Classified /\ relationshipType \in RelationshipTypes
       /\ similarity <= 95 /\ SameProject)
        => relationshipType = "builds_on"

\* the text holds a problem keyword; a null or missing text holds none
HasProblemKeyword(conv) ==
    /\ conv.user_prompt.kind = "string"
    /\ \E kw \in problemKeywords : includes(toLowerCase(conv.user_prompt.s), kw)

\* rules 3 to 6 in their order
LaterRule ==
    IF /\ HasProblemKeyword(source) /\ HasProblemKeyword(target)
       /\ source.topics \cap target.topics # {}
    THEN "solves_same_problem"
    ELSE IF mightContradict(source, target) THEN "contradicts"
    ELSE IF similarity > 85 THEN "references"
    ELSE "related"

\* C3: when rules 1 and 2 do not match, the result is the first match among
\* solves_same_problem, contradicts, references and related, in this order
LaterRulesInOrder ==
    (Classified /\ similarity <= 95 /\ ~SameProject)
        => relationshipType = LaterRule

\* C3 holds of every call that returns: it fails only where the classifier
\* throws (C4)
LaterRulesInOrderWhenReturned ==
    (Classified /\ similarity <= 95 /\ ~SameProject /\ relationshipType # TypeError)
        => relationshipType = LaterRule

\* C4: the classifier never raises an error and always returns one of the six
\* relationship types, also for a null or missing user text
ClassifyAlwaysReturnsType ==
    Classified => relationshipType \in RelationshipTypes

-----------------------------------------------------------------------------
(* Properties of the relationship mapper, under Spec *)

\* C5: the table holds at most one row for each ordered pair (source,
\* related), after every interleaving of direct calls and batches
NoDuplicateEdges ==
    \A r1, r2 \in BagToSet(rels) :
        (r1.source = r2.source /\ r1.related = r2.related)
            => (r1 = r2 /\ rels[r1] = 1)

\* C5, its case: a direct call and the batch have both upserted the same pair
SamePairUpsertedTwice ==
    /\ frames["direct"].id = frames["batch"].id
    /\ \E i \in 1..(frames["direct"].k - 1), j \in 1..(frames["batch"].k - 1) :
          frames["direct"].relationships[i].id = frames["batch"].relationships[j].id

Edges(table) ==
    {[source |-> r.source, related |-> r.related, score |-> r.score,
      type |-> r.type] : r \in BagToSet(table)}

\* C6: a call that repeats an earlier one (every relationship it found is in
\* the table already) changes no edge: each of its upserts leaves the pairs,
\* scores, types and the number of rows as they were and sets detected_at,
\* and when it returns there is one row for each neighbor
IdempotentRerun ==
    [][\A c \in Callers :
        (/\ frames[c].pc = "store"
         /\ frames[c].rerun
         /\ frames'[c].k = frames[c].k + 1)
        => LET id == frames[c].id
               relationships == frames[c].relationships
               rel == relationships[frames[c].k]
           IN  /\ Edges(rels') = Edges(rels)
               /\ CountRows(rels', BagToSet(rels')) = CountRows(rels, BagToSet(rels))
               /\ \E r \in RowsOf(rels', id) :
                     r.related = rel.id /\ r.detected_at = now
               /\ frames'[c].pc = "returned" =>
                     \A i \in 1..Len(relationships) :
                        LET found == {r \in RowsOf(rels', id) :
                                         r.related = relationships[i].id}
                        IN  /\ Cardinality(found) = 1
                            /\ \A r \in found :
                                  /\ rels'[r] = 1
                                  /\ r.score = relationships[i].score
                                  /\ r.type = relationships[i].type
      ]_vars

\* C6, its case: a repeated call on a conversation with two neighbors returned
RerunReturned ==
    \E c \in Callers :
        /\ frames[c].pc = "returned"
        /\ frames[c].rerun
        /\ Len(frames[c].relationships) = 2

\* C7: the batch raises only when its own query fails, before any
\* conversation; in the loop every selected conversation is called in turn and
\* counted once; at the end success + failed is the number selected
BatchNeverAborts ==
    /\ batch.pc = "raised" => batch.i = 0
    /\ batch.pc = "loop" =>
          /\ batch.results.success + batch.results.failed = batch.i - 1
          /\ batch.i <= Len(batch.ids) + 1
          /\ frames["batch"].pc # "idle" =>
                /\ batch.i <= Len(batch.ids)
                /\ frames["batch"].id = batch.ids[batch.i]
    /\ batch.pc = "done" =>
          batch.results.success + batch.results.failed = Len(batch.ids)

\* C7, its case: a batch of two conversations ended, one of them failed
BatchEndedAfterFailure ==
    /\ batch.pc = "done"
    /\ Len(batch.ids) = 2
    /\ batch.results.failed = 1
    /\ batch.results.success = 1

-----------------------------------------------------------------------------
(* Properties of the hybrid search, under SpecSearch *)

\* the hybrid handler has answered the request
HybridAnswered == route = "/api/search/hybrid" /\ response # NoResponse

\* the record a result stands for: the conversation
RecordId(row) == IF "id" \in DOMAIN row THEN row.id ELSE row.conversation_id

RecordIds(rows) == [i \in 1..Len(rows) |-> RecordId(rows[i])]

\* 1-indexed rank of the record in a list of record ids, 0 when it is absent
Rank(ids, rec) ==
    IF \E i \in 1..Len(ids) : ids[i] = rec
    THEN CHOOSE i \in 1..Len(ids) :
            ids[i] = rec /\ \A j \in 1..(i - 1) : ids[j] # rec
    ELSE 0

\* weight / (60 + rank) with weight 1/2, as a fraction
Contribution(rank) ==
    IF rank = 0 THEN [n |-> 0, d |-> 1] ELSE [n |-> 1, d |-> 2 * (60 + rank)]

FusedScore(rec) ==
    LET l == Contribution(Rank(RecordIds(textResult.rows), rec))
        v == Contribution(Rank(vectorResults.hits, rec))
    IN  [n |-> l.n * v.d + v.n * l.d, d |-> l.d * v.d]

AtLeast(x, y) == x.n * y.d >= y.n * x.d

\* C9: the results are ordered by the sum over the sources of
\* weight / (60 + rank); lexical [conv1, conv2] and vector [conv2, conv3] give
\* [conv2, conv1, conv3].  Stated of the responses for which the semantic
\* endpoint's rows came in the rank order of the vector search, so that what
\* refutes it is the combination itself
FusedByReciprocalRank ==
    (/\ HybridAnswered
     /\ response.status = 200
     /\ RecordIds(vectorData.results) = vectorResults.hits) =>
        /\ \A i, j \in 1..Len(response.results) :
              i < j => AtLeast(FusedScore(RecordId(response.results[i])),
                               FusedScore(RecordId(response.results[j])))
        /\ (/\ RecordIds(textResult.rows) = <<"conv1", "conv2">>
            /\ vectorResults.hits = <<"conv2", "conv3">>
            /\ limit >= 3)
           => RecordIds(response.results) = <<"conv2", "conv1", "conv3">>

\* C10: no record is twice in the list the search returns
NoRecordTwice ==
    (HybridAnswered /\ response.status = 200) =>
        \A i, j \in 1..Len(response.results) :
            i # j => RecordId(response.results[i]) # RecordId(response.results[j])

\* the results are records of the ranked list ids, in the order of ids
InRankOrder(results, ids) ==
    /\ \A i \in 1..Len(results) : Rank(ids, RecordId(results[i])) > 0
    /\ \A i, j \in 1..Len(results) :
          i < j => Rank(ids, RecordId(results[i])) <= Rank(ids, RecordId(results[j]))

\* C11: when the vector sub-search or the embedding of the query fails and
\* the lexical search succeeds, the hybrid search answers successfully, with
\* the lexical results in lexical rank order
LexicalOnlyWhenVectorFails ==
    (HybridAnswered /\ ~vectorResults.ok /\ textResult.ok) =>
        /\ response.status = 200
        /\ response.total = Len(textResult.rows)
        /\ InRankOrder(response.results, RecordIds(textResult.rows))

\* trim() of the query is ''
EmptyOrWhitespace(q) ==
    q.kind = "string" /\ \A i \in 1..Len(q.s) : q.s[i] = " "

\* C12: a request whose query is empty or only whitespace is answered with
\* the invalid-query error, and no backend has been queried
BlankQueryRejected ==
    (response # NoResponse /\ EmptyOrWhitespace(query)) =>
        (response.status = 400 /\ invoked = {})

\* C13: when one source has zero results the hybrid search returns the
\* other source's results in that source's rank order, and when both have
\* zero results it returns an empty list with no error
DegradesToOtherSource ==
    (HybridAnswered /\ vectorResults.ok /\ textResult.ok) =>
        /\ vectorResults.hits = <<>> =>
              /\ response.status = 200
              /\ RecordIds(response.results) =
                    RecordIds(Slice(textResult.rows, limit))
        /\ textResult.rows = <<>> =>
              /\ response.status = 200
              /\ RecordIds(response.results) = Slice(vectorResults.hits, limit)

\* the part of C13 the code keeps: zero vector results give the lexical
\* rows in rank order, zero results on both sides give an empty list
DegradesToLexical ==
    (HybridAnswered /\ vectorResults.ok /\ textResult.ok
       /\ vectorResults.hits = <<>>) =>
        /\ response.status = 200
        /\ RecordIds(response.results) = RecordIds(Slice(textResult.rows, limit))

-----------------------------------------------------------------------------
(* Properties of the batch and of the graph, under Spec and SpecCancel *)

\* C14: once cancellation has been requested the batch starts no further
\* conversation
NoCallAfterCancel ==
    [][cancelRequested =>
         ~(frames["batch"].pc = "idle" /\ frames'["batch"].pc = "running")]_vars

\* the neighbours of the call of caller c that are in its relationships
Written(c) ==
    {frames[c].relationships[k].id : k \in 1..Len(frames[c].relationships)}

\* C15: when a call returns, every neighbour the vector store returned to it
\* is among the relationships it wrote and returned (a call that throws
\* reports its failure; a call that returns reports nothing else than its
\* relationships)
NoNeighborDropped ==
    \A c \in Callers :
        frames[c].pc = "returned" =>
            \A i \in 1..Len(frames[c].similarResults) :
                frames[c].similarResults[i].id \in Written(c)

\* C16: no row of conversation_relationships relates a conversation to itself
NoSelfEdge == \A r \in BagToSet(rels) : r.source # r.related

\* a call has written an edge
EdgeWritten ==
    \E c \in Callers : frames[c].pc = "returned" /\ RowsOf(rels, frames[c].id) # {}

\* the conversation at the later end of the pair
StartedLater(a, b) == conversations[a].started_at > conversations[b].started_at

\* C21: of every builds_on edge in the table the source is the conversation
\* that started later and the target (the base) the one that started earlier
BuildsOnFromLaterToEarlier ==
    \A r \in BagToSet(rels) :
        (r.type = "builds_on" /\ r.source \in Ids /\ r.related \in Ids) =>
            StartedLater(r.source, r.related)

\* C22: a run of the batch never selects a conversation that an earlier run
\* has counted as success
NoReprocessing ==
    [][(batch.pc = "idle" /\ batch'.pc = "loop") =>
          \A i \in 1..Len(batch'.ids) : batch'.ids[i] \notin processed]_vars

\* the conversations the batch may select
Completed == {id \in Ids : conversations[id].embedding_status = "completed"}

\* findRelatedConversations(id) returns whenever its queries are answered
CanSucceed(id) ==
    \/ id \notin points
    \/ \A r \in SearchResults(id, DefaultThreshold, DefaultLimit) :
          ~ClassifyMatches(conversations[id], r, <<>>).threw

\* C23: under repeated runs of the batch with a fixed limit, every
\* conversation with a completed embedding that can be processed is
\* eventually processed successfully
EveryCompletedProcessed ==
    \A id \in Completed : CanSucceed(id) => <>(id \in processed)

\* C24: a call that has failed has written no row of the table
FailedCallWroteNothing ==
    \A c \in Callers : frames[c].pc = "threw" => ~frames[c].wrote

-----------------------------------------------------------------------------
(* Properties of the embedding service, under SpecEmbed *)

\* C17: one call of processConversation makes at most 3 attempts in total
AtMostThreeAttempts == embed.attempts <= 3

\* C18: when a call has ended and left the conversation's embedding_status
\* at failed, embeddings_error_log has a row for the conversation
FailureIsLogged ==
    (embed.pc \in {"returned", "threw"} /\ embed.id \in Ids
       /\ embeddingStatus[embed.id] = "failed") =>
        \E row \in BagToSet(errorLog) : row.conversation_id = embed.id

\* the conversations of the batch whose embedding_status is status
Ended(status) ==
    {i \in 1..Len(embedBatch.ids) : embeddingStatus[embedBatch.ids[i]] = status}

\* C26: the batch returns success equal to the number of its conversations
\* whose embedding_status ends completed, and failed equal to the number of
\* those whose embedding_status ends failed
CountsMatchStatuses ==
    embedBatch.pc = "done" =>
        /\ embedBatch.results.success = Cardinality(Ended("completed"))
        /\ embedBatch.results.failed = Cardinality(Ended("failed"))

\* C27: a call of processConversation on an existing conversation retries at
\* most maxRetries times, and when it returns the conversation's
\* embedding_status is completed or failed
ReturnsCompletedOrFailed ==
    embed.id \in Ids =>
        /\ embed.retryCount <= maxRetries
        /\ embed.pc = "returned" =>
              embeddingStatus[embed.id] \in {"completed", "failed"}

\* C27, its case: a call has used every retry and returned
ReturnedAfterRetries ==
    /\ embed.id \in Ids
    /\ embed.pc = "returned"
    /\ embed.retryCount = maxRetries
    /\ embeddingStatus[embed.id] = "failed"

-----------------------------------------------------------------------------
(* Properties of the capture script, under SpecSync *)

\* the messages of the batches the backend has received
Delivered == UNION {Elements(delivered[i]) : i \in 1..Len(delivered)}

\* the messages a call of syncMessages that has not returned yet holds
Held == UNION {Elements(syncs[slot].messages) : slot \in Slots}

\* C19: no message queueMessage has accepted is lost when syncs fail: it has
\* been delivered, or a call that has not returned holds it, or it is in the
\* pending queue or in failedMessages
NoMessageLost ==
    \A m \in 1..captured :
        m \in Delivered \cup Held \cup Elements(messageQueue)
                \cup Elements(failedMessages)

\* the part of C19 the code keeps: when a failed call returns, its batch is
\* in the pending queue (normal sync) or in failedMessages (forced sync)
FailedBatchKept ==
    [][\A slot \in Slots :
          /\ (syncs[slot].pc = "fetch" /\ syncs'[slot].pc = "idle"
                 /\ delivered' = delivered)
               => Elements(syncs[slot].messages) \subseteq Elements(messageQueue')
          /\ (syncs[slot].pc = "set" /\ syncs'[slot].pc = "idle")
               => Elements(syncs[slot].messages) \subseteq Elements(failedMessages')
      ]_vars

\* the requests the backend has received that hold message m
RequestsWith(m) == {i \in 1..Len(delivered) : m \in Elements(delivered[i])}

\* message m is once in request i
OnceIn(m, i) ==
    Cardinality({k \in 1..Len(delivered[i]) : delivered[i][k] = m}) = 1

\* C28: under any interleaving of the calls of syncMessages no message is
\* delivered to the backend more than once
DeliveredAtMostOnce ==
    \A m \in 1..captured :
        /\ Cardinality(RequestsWith(m)) <= 1
        /\ \A i \in RequestsWith(m) : OnceIn(m, i)

\* the first request that holds message m, and m's first place in it
FirstRequest(m) == CHOOSE i \in RequestsWith(m) : \A j \in RequestsWith(m) : i <= j

FirstPlace(m) ==
    CHOOSE k \in 1..Len(delivered[FirstRequest(m)]) :
        /\ delivered[FirstRequest(m)][k] = m
        /\ \A l \in 1..(k - 1) : delivered[FirstRequest(m)][l] # m

\* C29: messages reach the backend in capture order: a message queued before
\* another is not delivered in a later request, nor after it in the same
\* request (of each message its first delivery is taken)
InCaptureOrder ==
    \A a, b \in Delivered :
        a < b =>
            \/ FirstRequest(a) < FirstRequest(b)
            \/ FirstRequest(a) = FirstRequest(b) /\ FirstPlace(a) < FirstPlace(b)

-----------------------------------------------------------------------------
(* Properties of the backup script, under SpecBackup *)

\* the date a timestamp stands for
DayOf(timestamp) == timestamp[1] * 10 + timestamp[2]

\* C20: when cleanupOldBackups has finished, at most retention.daily daily
\* and retention.weekly weekly files remain, every file that remains is newer
\* than every file of its type that is gone, and the file the run created
\* remains
RetentionKept ==
    backupRun.pc = "cleaned" =>
        /\ Cardinality(OfType(backupDir, "daily")) <= retention.daily
        /\ Cardinality(OfType(backupDir, "weekly")) <= retention.weekly
        /\ \A kept \in backupDir, gone \in createdBackups \ backupDir :
              kept.type = gone.type => DayOf(kept.timestamp) > DayOf(gone.timestamp)
        /\ backupRun.filename \in backupDir

\* a cleanup has finished after it unlinked a file of each type
BothTypesCleaned ==
    /\ backupRun.pc = "cleaned"
    /\ OfType(createdBackups \ backupDir, "daily") # {}
    /\ OfType(createdBackups \ backupDir, "weekly") # {}
    /\ DayOf(backupRun.filename.timestamp) >= 10

-----------------------------------------------------------------------------
(* Properties of the capture endpoint, under SpecCapture *)

\* the messages of the request that are in table messages
Present ==
    {i \in 1..Len(capture.messages) :
        \E r \in database.messages :
            /\ r.conversation_id = capture.messages[i].conversationId
            /\ r.content = capture.messages[i].content}

\* C25: the stored count processMessages returns is the number of the
\* request's messages that are in table messages afterwards: a message
\* counted as stored is in the table (stated of the requests all of whose
\* transactions committed)
StoredCountIsPersisted ==
    (capture.pc = "done" /\ capture.results.errors = <<>>) =>
        capture.results.stored = Cardinality(Present)

-----------------------------------------------------------------------------
(* Properties of the template extractor, under SpecCluster *)

\* the memberIds of all clusters, one after the other
RECURSIVE Flatten(_)
Flatten(clusters) ==
    IF clusters = <<>> THEN <<>> ELSE Head(clusters) \o Flatten(Tail(clusters))

\* C30: in the clusters clusterSimilarPrompts returns every conversation id
\* occurs at most once: not twice in one cluster, not in two clusters
EachIdInOneClusterOnce ==
    clusterRun.pc = "done" => Injective(Flatten(clusterRun.clusters))

====
